---- MODULE Spec2Model ----
(***************************************************************************)
(* Model of logstash/formatter.py: LogstashFormatterBase and its two       *)
(* schema variants.  Python values are records of one shape (tag t and the *)
(* payload fields the tag uses); a Python str is the sequence of its       *)
(* characters, so formatting is modelled by the characters it produces.    *)
(***************************************************************************)
EXTENDS Integers, Sequences, FiniteSets, TLC

VARIABLES formatter, tz, hostname, calls, arg, ret

vars == <<formatter, tz, hostname, calls, arg, ret>>

-----------------------------------------------------------------------------
(* Python values *)

Mk(t, s, n, chars, keys, kids) ==
  [t |-> t, s |-> s, n |-> n, chars |-> chars, keys |-> keys, kids |-> kids]

Str(c) == Mk("str", "", <<>>, c, <<>>, <<>>)
PyInt(i) == Mk("int", "", <<i>>, <<>>, <<>>, <<>>)
Bool(b) == Mk("bool", "", <<IF b THEN 1 ELSE 0>>, <<>>, <<>>, <<>>)
None == Mk("none", "", <<>>, <<>>, <<>>, <<>>)
\* a float is finite (n = <<m, e>>, value m * 10^e, m not a multiple of 10
\* unless 0), nan, inf, -inf, or an epoch instant with microsecond resolution
\* (s = "epoch", n = <<days since 1970-01-01, second of the day, microsecond>>)
Float(kind, n) == Mk("float", kind, n, <<>>, <<>>, <<>>)
Epoch(days, sod, us) == Float("epoch", <<days, sod, us>>)
\* decimal.Decimal: finite (n = <<sign, coefficient, exponent>>) or special
Decimal(kind, n) == Mk("decimal", kind, n, <<>>, <<>>, <<>>)
\* datetime.datetime (naive): n = <<year, month, day, hour, minute, second, microsecond>>
DateTime(y, mo, d, h, mi, sec, us) == Mk("datetime", "", <<y, mo, d, h, mi, sec, us>>, <<>>, <<>>, <<>>)
\* datetime.date: n = <<year, month, day>>
Date(y, mo, d) == Mk("date", "", <<y, mo, d>>, <<>>, <<>>, <<>>)
\* uuid.UUID: n = its 32 nibbles, most significant first
Uuid(nibbles) == Mk("uuid", "", nibbles, <<>>, <<>>, <<>>)
List(kids) == Mk("list", "", <<>>, <<>>, <<>>, kids)
Tuple(kids) == Mk("tuple", "", <<>>, <<>>, <<>>, kids)
\* a dict in insertion order: keys[i] maps to kids[i]
Dict(keys, kids) == Mk("dict", "", <<>>, <<>>, keys, kids)
\* any other object; chars is what its __repr__ returns, s = "raises" when
\* its __repr__ raises instead
Object(kind, reprchars) == Mk("object", kind, <<>>, reprchars, <<>>, <<>>)
\* bytes: chars holds the ASCII text
Bytes(c) == Mk("bytes", "", <<>>, c, <<>>, <<>>)
\* a local name not bound yet
Unbound == Mk("unbound", "", <<>>, <<>>, <<>>, <<>>)
\* the outcome of a call that raised; s names the exception
Raised(exc) == Mk("error", exc, <<>>, <<>>, <<>>, <<>>)

IsRaised(v) == v.t = "error"

-----------------------------------------------------------------------------
(* Evaluation helpers: an operator's argument is an expression, evaluated
   again at every use; these bind the value of the argument instead *)

Eval(F(_), a) == CHOOSE r \in {F(v) : v \in {a}} : TRUE
Eval2(F(_, _), a, b) == CHOOSE r \in {F(v, w) : v \in {a}, w \in {b}} : TRUE
\* a sequence given by a rule, as a tuple of its values
Tup(f) == f \o <<>>

-----------------------------------------------------------------------------
(* Text helpers *)

DigitChars == <<"0", "1", "2", "3", "4", "5", "6", "7", "8", "9">>
HexChars == <<"0", "1", "2", "3", "4", "5", "6", "7", "8", "9", "a", "b", "c", "d", "e", "f">>

RECURSIVE Digits(_)
\* the decimal digits of a natural number
Digits(k) == IF k < 10 THEN <<DigitChars[k + 1]>> ELSE Digits(k \div 10) \o <<DigitChars[(k % 10) + 1]>>

RECURSIVE ZeroPad(_, _)
\* "%0<w>d": left-padded with zeros to a width of at least w
ZeroPad(c, w) == IF Len(c) >= w THEN c ELSE ZeroPad(<<"0">> \o c, w)

-----------------------------------------------------------------------------
(* Calendar: the proleptic Gregorian calendar of datetime *)

\* days since 1970-01-01 of a civil date
days_from_civil(y, m, d) ==
  LET yy == IF m <= 2 THEN y - 1 ELSE y
      era == yy \div 400
      yoe == yy - era * 400
      mp == IF m > 2 THEN m - 3 ELSE m + 9
      doy == (153 * mp + 2) \div 5 + d - 1
      doe == yoe * 365 + yoe \div 4 - yoe \div 100 + doy
  IN era * 146097 + doe - 719468

\* <<year, month, day>> of a day count since 1970-01-01
civil_from_days(z) ==
  LET zz == z + 719468
      era == zz \div 146097
      doe == zz - era * 146097
      yoe == (doe - doe \div 1460 + doe \div 36524 - doe \div 146096) \div 365
      doy == doe - (365 * yoe + yoe \div 4 - yoe \div 100)
      mp == (5 * doy + 2) \div 153
      d == doy - (153 * mp + 2) \div 5 + 1
      m == IF mp < 10 THEN mp + 3 ELSE mp - 9
      y == yoe + era * 400 + (IF m <= 2 THEN 1 ELSE 0)
  IN <<y, m, d>>

-----------------------------------------------------------------------------
(* format_timestamp *)

\* the milliseconds rounded to the nearest instead of cut off
MillisRounded(us) == (us + 500) \div 1000

\* tstamp.microsecond / 1000 under "%03d": the whole milliseconds

Millis(us) == us \div 1000

\* datetime.utcfromtimestamp: the UTC fields of an epoch instant, or the
\* error it raises for a non-number or a year outside 1..9999
utcfromtimestamp(timestamp) ==
  IF ~(timestamp.t = "float" /\ timestamp.s = "epoch") THEN Raised("TypeError")
  ELSE Eval2(LAMBDA c, sod :
               IF c[1] < 1 \/ c[1] > 9999 THEN Raised("ValueError")
               ELSE DateTime(c[1], c[2], c[3], sod \div 3600, (sod % 3600) \div 60, sod % 60, timestamp.n[3]),
             civil_from_days(timestamp.n[1]), timestamp.n[2])

\* tstamp.strftime("%Y-%m-%dT%H:%M:%S") for a year of four digits
strftime(t) ==
  ZeroPad(Digits(t.n[1]), 4) \o <<"-">> \o ZeroPad(Digits(t.n[2]), 2) \o <<"-">> \o
  ZeroPad(Digits(t.n[3]), 2) \o <<"T">> \o ZeroPad(Digits(t.n[4]), 2) \o <<":">> \o
  ZeroPad(Digits(t.n[5]), 2) \o <<":">> \o ZeroPad(Digits(t.n[6]), 2)

format_timestamp(timestamp) ==
  Eval(LAMBDA tstamp :
         IF IsRaised(tstamp) THEN tstamp
         ELSE Str(strftime(tstamp) \o <<".">> \o ZeroPad(Digits(Millis(tstamp.n[7])), 3) \o <<"Z">>),
       utcfromtimestamp(timestamp))

-----------------------------------------------------------------------------
(* The conversions value_repr calls *)

\* value.timetuple(): the fields down to the second; a date is its midnight
timetuple(value) ==
  IF value.t = "datetime"
  THEN <<value.n[1], value.n[2], value.n[3], value.n[4], value.n[5], value.n[6]>>
  ELSE <<value.n[1], value.n[2], value.n[3], 0, 0, 0>>

\* time.mktime: the epoch instant of a local time; tz is the zone's offset
\* east of UTC in seconds (a fixed offset, no daylight saving change)
mktime(tt) ==
  LET secs == tt[4] * 3600 + tt[5] * 60 + tt[6] - tz
  IN Epoch(days_from_civil(tt[1], tt[2], tt[3]) + secs \div 86400, secs % 86400, 0)

RECURSIVE Zeros(_)
Zeros(k) == IF k = 0 THEN <<>> ELSE <<"0">> \o Zeros(k - 1)

\* str(Decimal): plain notation (exponent <= 0, at most six leading zeros)
decimal_str(value) ==
  LET sign == IF value.n[1] = 1 THEN <<"-">> ELSE <<>>
  IN CASE value.s = "NaN" -> <<"N", "a", "N">>
       [] value.s = "sNaN" -> <<"s", "N", "a", "N">>
       [] value.s = "Infinity" -> sign \o <<"I", "n", "f", "i", "n", "i", "t", "y">>
       [] value.s = "finite" ->
            LET ds == Digits(value.n[2])
                k == 0 - value.n[3]
            IN IF k = 0 THEN sign \o ds
               ELSE IF Len(ds) > k
                    THEN sign \o SubSeq(ds, 1, Len(ds) - k) \o <<".">> \o SubSeq(ds, Len(ds) - k + 1, Len(ds))
                    ELSE sign \o <<"0", ".">> \o Zeros(k - Len(ds)) \o ds

DigitVal(c) == CHOOSE d \in 0..9 : DigitChars[d + 1] = c
IsDigit(c) == \E d \in 0..9 : DigitChars[d + 1] = c

RECURSIVE ParseNat(_)
ParseNat(c) == IF c = <<>> THEN 0 ELSE ParseNat(SubSeq(c, 1, Len(c) - 1)) * 10 + DigitVal(c[Len(c)])

RECURSIVE StripZeros(_, _)
\* the float m * 10^e with the trailing zeros of m moved into e
StripZeros(m, e) ==
  IF m = 0 THEN <<0, 0>>
  ELSE IF m % 10 = 0 THEN StripZeros(m \div 10, e + 1) ELSE <<m, e>>

\* float(text): the special spellings, then [-]digits[.digits]; anything
\* else (a signalling NaN's "sNaN" among them) raises ValueError
float_of_str(c) ==
  LET neg == c # <<>> /\ c[1] = "-"
      body == IF neg THEN Tail(c) ELSE c
      dots == {i \in 1..Len(body) : body[i] = "."}
      ip == IF dots = {} THEN body ELSE SubSeq(body, 1, (CHOOSE i \in dots : TRUE) - 1)
      fp == IF dots = {} THEN <<>> ELSE SubSeq(body, (CHOOSE i \in dots : TRUE) + 1, Len(body))
      me == StripZeros(ParseNat(ip \o fp), 0 - Len(fp))
  IN CASE body = <<"N", "a", "N">> -> Float("nan", <<>>)
       [] body = <<"I", "n", "f", "i", "n", "i", "t", "y">> -> Float(IF neg THEN "-inf" ELSE "inf", <<>>)
       [] Cardinality(dots) <= 1 /\ Len(ip \o fp) > 0 /\ (\A i \in 1..Len(ip \o fp) : IsDigit((ip \o fp)[i])) ->
            Float("finite", <<IF neg THEN 0 - me[1] ELSE me[1], me[2]>>)
       [] OTHER -> Raised("ValueError")

\* UUID.hex: the 32 lower-case hexadecimal digits, no hyphens
uuid_hex(value) == Str([i \in 1..Len(value.n) |-> HexChars[value.n[i] + 1]])

\* the first element of a sequence of outcomes that is a raised error
FirstRaised(vs) == vs[CHOOSE i \in 1..Len(vs) : IsRaised(vs[i]) /\ \A j \in 1..(i - 1) : ~IsRaised(vs[j])]
AnyRaised(vs) == \E i \in 1..Len(vs) : IsRaised(vs[i])

RECURSIVE JoinFrom(_, _)
JoinFrom(cs, i) ==
  IF i > Len(cs) THEN <<>>
  ELSE IF i = Len(cs) THEN cs[i]
  ELSE cs[i] \o <<",", " ">> \o JoinFrom(cs, i + 1)

\* ", ".join of a sequence of texts
JoinComma(cs) == JoinFrom(cs, 1)

\* repr of a finite float (also what json writes): plain notation
float_repr(n) ==
  LET sign == IF n[1] < 0 THEN <<"-">> ELSE <<>>
      m == IF n[1] < 0 THEN 0 - n[1] ELSE n[1]
      ds == Digits(m)
      k == 0 - n[2]
  IN IF k <= 0 THEN sign \o ds \o Zeros(0 - k) \o <<".", "0">>
     ELSE IF Len(ds) > k
          THEN sign \o SubSeq(ds, 1, Len(ds) - k) \o <<".">> \o SubSeq(ds, Len(ds) - k + 1, Len(ds))
          ELSE sign \o <<"0", ".">> \o Zeros(k - Len(ds)) \o ds

\* repr of a datetime or date: trailing zero second and microsecond are left out
datetime_repr(value) ==
  LET f == [i \in 1..Len(value.n) |-> Digits(value.n[i])]
  IN IF value.t = "date" THEN <<"d", "a", "t", "e", "t", "i", "m", "e", ".", "d", "a", "t", "e", "(">> \o JoinComma(f) \o <<")">>
     ELSE <<"d", "a", "t", "e", "t", "i", "m", "e", ".", "d", "a", "t", "e", "t", "i", "m", "e", "(">> \o
          JoinComma(SubSeq(f, 1, IF value.n[7] # 0 THEN 7 ELSE IF value.n[6] # 0 THEN 6 ELSE 5)) \o <<")">>

\* repr of a UUID: the hexadecimal digits in groups of 8-4-4-4-12
uuid_repr(value) ==
  LET h == uuid_hex(value).chars
  IN <<"U", "U", "I", "D", "(", "'">> \o SubSeq(h, 1, 8) \o <<"-">> \o SubSeq(h, 9, 12) \o <<"-">> \o SubSeq(h, 13, 16) \o
     <<"-">> \o SubSeq(h, 17, 20) \o <<"-">> \o SubSeq(h, 21, 32) \o <<"'", ")">>

RECURSIVE repr(_)
\* the builtin repr: a str value, or the error a __repr__ raised (text is
\* taken to hold no quote and no escape)
repr(value) ==
  CASE value.t = "none" -> Str(<<"N", "o", "n", "e">>)
    [] value.t = "bool" -> Str(IF value.n[1] = 1 THEN <<"T", "r", "u", "e">> ELSE <<"F", "a", "l", "s", "e">>)
    [] value.t = "int" -> Str(IF value.n[1] < 0 THEN <<"-">> \o Digits(0 - value.n[1]) ELSE Digits(value.n[1]))
    [] value.t = "str" -> Str(<<"'">> \o value.chars \o <<"'">>)
    [] value.t = "float" /\ value.s = "finite" -> Str(float_repr(value.n))
    [] value.t = "float" /\ value.s = "nan" -> Str(<<"n", "a", "n">>)
    [] value.t = "float" /\ value.s = "inf" -> Str(<<"i", "n", "f">>)
    [] value.t = "float" /\ value.s = "-inf" -> Str(<<"-", "i", "n", "f">>)
    [] value.t = "decimal" -> Str(<<"D", "e", "c", "i", "m", "a", "l", "(", "'">> \o decimal_str(value) \o <<"'", ")">>)
    [] value.t \in {"datetime", "date"} -> Str(datetime_repr(value))
    [] value.t = "uuid" -> Str(uuid_repr(value))
    [] value.t = "object" -> IF value.s = "raises" THEN Raised("RuntimeError") ELSE Str(value.chars)
    [] value.t \in {"tuple", "list"} ->
         Eval(LAMBDA rs :
                IF AnyRaised(rs) THEN FirstRaised(rs)
                ELSE Eval(LAMBDA inner :
                            IF value.t = "list" THEN Str(<<"[">> \o inner \o <<"]">>)
                            ELSE IF Len(rs) = 1 THEN Str(<<"(">> \o inner \o <<",", ")">>)
                            ELSE Str(<<"(">> \o inner \o <<")">>),
                          JoinComma([i \in 1..Len(rs) |-> rs[i].chars])),
              Tup([i \in 1..Len(value.kids) |-> repr(value.kids[i])]))
    [] value.t = "dict" ->
         \* the key and the value of each item in turn
         Eval(LAMBDA both :
                IF AnyRaised(both) THEN FirstRaised(both)
                ELSE Str(<<"{">> \o JoinComma([i \in 1..Len(value.kids) |->
                                   both[2 * i - 1].chars \o <<":", " ">> \o both[2 * i].chars]) \o <<"}">>),
              Tup([i \in 1..(2 * Len(value.kids)) |->
                     IF i % 2 = 1 THEN repr(value.keys[(i + 1) \div 2]) ELSE repr(value.kids[i \div 2])]))

-----------------------------------------------------------------------------
(* get_extra_fields.value_repr *)

easy_types == {"str", "bool", "float", "int", "none"}

RECURSIVE value_repr(_)
value_repr(value) ==
  CASE value.t = "dict" ->
         Eval(LAMBDA vs : IF AnyRaised(vs) THEN FirstRaised(vs) ELSE Dict(value.keys, vs),
              Tup([i \in 1..Len(value.kids) |-> value_repr(value.kids[i])]))
    [] value.t = "list" ->
         Eval(LAMBDA vs : IF AnyRaised(vs) THEN FirstRaised(vs) ELSE List(vs),
              Tup([i \in 1..Len(value.kids) |-> value_repr(value.kids[i])]))
    [] value.t \in {"datetime", "date"} -> format_timestamp(mktime(timetuple(value)))
    [] value.t = "decimal" -> Eval(LAMBDA text : float_of_str(text), decimal_str(value))
    [] value.t = "uuid" -> uuid_hex(value)
    [] value.t \in easy_types -> value
    [] OTHER -> repr(value)
-----------------------------------------------------------------------------
(* dict operations *)

DictHas(d, k) == \E i \in 1..Len(d.keys) : d.keys[i] = k
DictIndex(d, k) == CHOOSE i \in 1..Len(d.keys) : d.keys[i] = k
DictGet(d, k) == d.kids[DictIndex(d, k)]
\* d[k] = v: an existing key keeps its place, a new one goes last
DictSet(d, k, v) ==
  IF DictHas(d, k) THEN Dict(d.keys, [d.kids EXCEPT ![DictIndex(d, k)] = v])
  ELSE Dict(Append(d.keys, k), Append(d.kids, v))

RECURSIVE DictUpdateFrom(_, _, _)
DictUpdateFrom(d, other, i) ==
  IF i > Len(other.keys) THEN d
  ELSE Eval(LAMBDA d1 : DictUpdateFrom(d1, other, i + 1), DictSet(d, other.keys[i], other.kids[i]))

\* d.update(other)
DictUpdate(d, other) == Eval2(LAMBDA d0, o : DictUpdateFrom(d0, o, 1), d, other)

\* bool(value)
Truthy(value) ==
  CASE value.t = "none" -> FALSE
    [] value.t \in {"bool", "int"} -> value.n[1] # 0
    [] value.t = "str" -> value.chars # <<>>
    [] value.t \in {"list", "tuple", "dict"} -> value.kids # <<>>
    [] value.t = "float" /\ value.s = "finite" -> value.n[1] # 0
    [] OTHER -> TRUE

-----------------------------------------------------------------------------
(* LogRecord: the record is its __dict__; reading an attribute that is not
   there raises AttributeError *)

HasAttr(record, name) == DictHas(record, Str(name))
Attr(record, name) == IF HasAttr(record, name) THEN DictGet(record, Str(name)) ELSE Raised("AttributeError")
\* getattr(record, name, default)
GetAttrOr(record, name, default) == IF HasAttr(record, name) THEN DictGet(record, Str(name)) ELSE default

\* record.getMessage() of a record logged without arguments: str(msg)
getMessage(record) == CASE ~Truthy(Attr(record, <<"a", "r", "g", "s">>)) /\ Attr(record, <<"m", "s", "g">>).t = "str" -> Attr(record, <<"m", "s", "g">>)

-----------------------------------------------------------------------------
(* LogstashFormatterBase *)

\* the names the machine answers to: socket.gethostname() and socket.getfqdn()
gethostname(name) == name
getfqdn(name) == name \o <<".", "l", "a", "n">>

\* __init__
LogstashFormatterBase_init(message_type, tags, fqdn, name) ==
  [message_type |-> message_type,
   tags |-> IF tags # None THEN tags ELSE List(<<>>),
   host |-> IF fqdn THEN Str(getfqdn(name)) ELSE Str(gethostname(name))]

\* skip_list with 'process' left out
skip_list_short == <<
  <<"a", "r", "g", "s">>, <<"a", "s", "c", "t", "i", "m", "e">>, <<"c", "r", "e", "a", "t", "e", "d">>, <<"e", "x", "c", "_", "i", "n", "f", "o">>, <<"e", "x", "c", "_", "t", "e", "x", "t">>, <<"f", "i", "l", "e", "n", "a", "m", "e">>,
  <<"f", "u", "n", "c", "N", "a", "m", "e">>, <<"i", "d">>, <<"l", "e", "v", "e", "l", "n", "a", "m", "e">>, <<"l", "e", "v", "e", "l", "n", "o">>, <<"l", "i", "n", "e", "n", "o">>, <<"m", "o", "d", "u", "l", "e">>,
  <<"m", "s", "e", "c", "s">>, <<"m", "s", "e", "c", "s">>, <<"m", "e", "s", "s", "a", "g", "e">>, <<"m", "s", "g">>, <<"n", "a", "m", "e">>, <<"p", "a", "t", "h", "n", "a", "m", "e">>,
  <<"p", "r", "o", "c", "e", "s", "s", "N", "a", "m", "e">>, <<"r", "e", "l", "a", "t", "i", "v", "e", "C", "r", "e", "a", "t", "e", "d">>, <<"t", "h", "r", "e", "a", "d">>, <<"t", "h", "r", "e", "a", "d", "N", "a", "m", "e">>, <<"e", "x", "t", "r", "a">>>>

skip_list == <<
  <<"a", "r", "g", "s">>, <<"a", "s", "c", "t", "i", "m", "e">>, <<"c", "r", "e", "a", "t", "e", "d">>, <<"e", "x", "c", "_", "i", "n", "f", "o">>, <<"e", "x", "c", "_", "t", "e", "x", "t">>, <<"f", "i", "l", "e", "n", "a", "m", "e">>,
  <<"f", "u", "n", "c", "N", "a", "m", "e">>, <<"i", "d">>, <<"l", "e", "v", "e", "l", "n", "a", "m", "e">>, <<"l", "e", "v", "e", "l", "n", "o">>, <<"l", "i", "n", "e", "n", "o">>, <<"m", "o", "d", "u", "l", "e">>,
  <<"m", "s", "e", "c", "s">>, <<"m", "s", "e", "c", "s">>, <<"m", "e", "s", "s", "a", "g", "e">>, <<"m", "s", "g">>, <<"n", "a", "m", "e">>, <<"p", "a", "t", "h", "n", "a", "m", "e">>, <<"p", "r", "o", "c", "e", "s", "s">>,
  <<"p", "r", "o", "c", "e", "s", "s", "N", "a", "m", "e">>, <<"r", "e", "l", "a", "t", "i", "v", "e", "C", "r", "e", "a", "t", "e", "d">>, <<"t", "h", "r", "e", "a", "d">>, <<"t", "h", "r", "e", "a", "d", "N", "a", "m", "e">>, <<"e", "x", "t", "r", "a">>>>

InSkipList(key) == key.t = "str" /\ \E i \in 1..Len(skip_list) : skip_list[i] = key.chars

RECURSIVE ExtraFieldsFrom(_, _, _)
\* the loop of get_extra_fields from the i-th item of record.__dict__ on
ExtraFieldsFrom(record, fields, i) ==
  IF i > Len(record.keys) THEN fields
  ELSE IF InSkipList(record.keys[i]) THEN ExtraFieldsFrom(record, fields, i + 1)
  ELSE Eval(LAMBDA v :
              IF IsRaised(v) THEN v
              ELSE Eval(LAMBDA f : ExtraFieldsFrom(record, f, i + 1), DictSet(fields, record.keys[i], v)),
            value_repr(record.kids[i]))

get_extra_fields(record) == ExtraFieldsFrom(record, Dict(<<>>, <<>>), 1)

\* traceback.format_exception(*exc_info), joined: the text the traceback
\* object of the triple stands for
format_exception(exc_info) == IF Truthy(exc_info) THEN Str(exc_info.kids[3].chars) ELSE Str(<<>>)

\* fields[name] = getattr(record, name) where the attribute is missing or
\* falsy, as the two if statements of get_debug_fields have it
add_if_not(fields, record, name) ==
  IF ~Truthy(GetAttrOr(record, name, None))
  THEN (IF IsRaised(Attr(record, name)) THEN Attr(record, name)
        ELSE DictSet(fields, Str(name), Attr(record, name)))
  ELSE fields

get_debug_fields(record) ==
  Eval(LAMBDA fields :
         Eval(LAMBDA withFunc :
                IF IsRaised(withFunc) THEN withFunc ELSE add_if_not(withFunc, record, <<"p", "r", "o", "c", "e", "s", "s", "N", "a", "m", "e">>),
              add_if_not(fields, record, <<"f", "u", "n", "c", "N", "a", "m", "e">>)),
       Dict(<<Str(<<"s", "t", "a", "c", "k", "_", "t", "r", "a", "c", "e">>), Str(<<"l", "i", "n", "e", "n", "o">>), Str(<<"p", "r", "o", "c", "e", "s", "s">>), Str(<<"t", "h", "r", "e", "a", "d", "_", "n", "a", "m", "e">>)>>,
            <<format_exception(Attr(record, <<"e", "x", "c", "_", "i", "n", "f", "o">>)), Attr(record, <<"l", "i", "n", "e", "n", "o">>),
              Attr(record, <<"p", "r", "o", "c", "e", "s", "s">>), Attr(record, <<"t", "h", "r", "e", "a", "d", "N", "a", "m", "e">>)>>))

\* "%s://%s/%s" % (message_type, host, path), all three str
format_source(message_type, host, path) ==
  Str(message_type.chars \o <<":", "/", "/">> \o host.chars \o <<"/">> \o path.chars)

\* the text json.dumps writes for a dict key, or TypeError for a key that
\* is not a str, int, float, bool or None
json_key(k) ==
  CASE k.t = "str" -> Str(k.chars)
    [] k.t = "int" -> repr(k)
    [] k.t = "bool" -> Str(IF k.n[1] = 1 THEN <<"t", "r", "u", "e">> ELSE <<"f", "a", "l", "s", "e">>)
    [] k.t = "none" -> Str(<<"n", "u", "l", "l">>)
    [] k.t = "float" /\ k.s = "finite" -> Str(float_repr(k.n))
    [] OTHER -> Raised("TypeError")

RECURSIVE json_dumps(_)
\* json.dumps with its default separators: the text as a str value, or
\* TypeError for what is not JSON serializable
json_dumps(o) ==
  CASE o.t = "str" -> Str(<<"\"">> \o o.chars \o <<"\"">>)
    [] o.t = "none" -> Str(<<"n", "u", "l", "l">>)
    [] o.t = "bool" -> Str(IF o.n[1] = 1 THEN <<"t", "r", "u", "e">> ELSE <<"f", "a", "l", "s", "e">>)
    [] o.t = "int" -> repr(o)
    [] o.t = "float" /\ o.s = "finite" -> Str(float_repr(o.n))
    [] o.t = "float" /\ o.s = "nan" -> Str(<<"N", "a", "N">>)
    [] o.t = "float" /\ o.s = "inf" -> Str(<<"I", "n", "f", "i", "n", "i", "t", "y">>)
    [] o.t = "float" /\ o.s = "-inf" -> Str(<<"-", "I", "n", "f", "i", "n", "i", "t", "y">>)
    [] o.t \in {"list", "tuple"} ->
         Eval(LAMBDA rs :
                IF AnyRaised(rs) THEN FirstRaised(rs)
                ELSE Str(<<"[">> \o JoinComma([i \in 1..Len(rs) |-> rs[i].chars]) \o <<"]">>),
              Tup([i \in 1..Len(o.kids) |-> json_dumps(o.kids[i])]))
    [] o.t = "dict" ->
         \* the key and the value of each item in turn
         Eval(LAMBDA both :
                IF AnyRaised(both) THEN FirstRaised(both)
                ELSE Str(<<"{">> \o JoinComma([i \in 1..Len(o.kids) |->
                                   <<"\"">> \o both[2 * i - 1].chars \o <<"\"", ":", " ">> \o both[2 * i].chars]) \o <<"}">>),
              Tup([i \in 1..(2 * Len(o.kids)) |->
                     IF i % 2 = 1 THEN json_key(o.keys[(i + 1) \div 2]) ELSE json_dumps(o.kids[i \div 2])]))
    [] OTHER -> Raised("TypeError")

\* serialize on Python 3: the JSON text as UTF-8 bytes (the text is ASCII)
serialize(message) ==
  Eval(LAMBDA text : IF IsRaised(text) THEN text ELSE Bytes(text.chars), json_dumps(message))

-----------------------------------------------------------------------------
(* LogstashFormatterVersion0.format and LogstashFormatterVersion1.format,
   statement by statement *)

\* the message dict of version 0
message_v0(self, record) ==
  Eval(LAMBDA ts :
     IF IsRaised(ts) THEN ts
     ELSE Dict(<<Str(<<"@", "t", "i", "m", "e", "s", "t", "a", "m", "p">>), Str(<<"@", "m", "e", "s", "s", "a", "g", "e">>), Str(<<"@", "s", "o", "u", "r", "c", "e">>), Str(<<"@", "s", "o", "u", "r", "c", "e", "_", "h", "o", "s", "t">>),
                 Str(<<"@", "s", "o", "u", "r", "c", "e", "_", "p", "a", "t", "h">>), Str(<<"@", "t", "a", "g", "s">>), Str(<<"@", "t", "y", "p", "e">>), Str(<<"@", "f", "i", "e", "l", "d", "s">>)>>,
               <<ts, getMessage(record),
                 format_source(self.message_type, self.host, Attr(record, <<"p", "a", "t", "h", "n", "a", "m", "e">>)),
                 self.host, Attr(record, <<"p", "a", "t", "h", "n", "a", "m", "e">>), self.tags, self.message_type,
                 Dict(<<Str(<<"l", "e", "v", "e", "l", "n", "a", "m", "e">>), Str(<<"l", "o", "g", "g", "e", "r">>)>>,
                      <<Attr(record, <<"l", "e", "v", "e", "l", "n", "a", "m", "e">>), Attr(record, <<"n", "a", "m", "e">>)>>)>>),
     format_timestamp(Attr(record, <<"c", "r", "e", "a", "t", "e", "d">>)))

\* version 1 with the host looked up again at every call
message_v1_resolving(self, record) ==
  Eval(LAMBDA ts :
     IF IsRaised(ts) THEN ts
     ELSE Dict(<<Str(<<"@", "t", "i", "m", "e", "s", "t", "a", "m", "p">>), Str(<<"@", "v", "e", "r", "s", "i", "o", "n">>), Str(<<"m", "e", "s", "s", "a", "g", "e">>), Str(<<"h", "o", "s", "t">>), Str(<<"p", "a", "t", "h">>),
                 Str(<<"t", "a", "g", "s">>), Str(<<"t", "y", "p", "e">>), Str(<<"l", "e", "v", "e", "l">>), Str(<<"l", "o", "g", "g", "e", "r", "_", "n", "a", "m", "e">>)>>,
               <<ts, Str(<<"1">>), getMessage(record), Str(gethostname(hostname)), Attr(record, <<"p", "a", "t", "h", "n", "a", "m", "e">>),
                 self.tags, self.message_type, Attr(record, <<"l", "e", "v", "e", "l", "n", "a", "m", "e">>), Attr(record, <<"n", "a", "m", "e">>)>>),
     format_timestamp(Attr(record, <<"c", "r", "e", "a", "t", "e", "d">>)))

\* the message dict of version 1
message_v1(self, record) ==
  Eval(LAMBDA ts :
     IF IsRaised(ts) THEN ts
     ELSE Dict(<<Str(<<"@", "t", "i", "m", "e", "s", "t", "a", "m", "p">>), Str(<<"@", "v", "e", "r", "s", "i", "o", "n">>), Str(<<"m", "e", "s", "s", "a", "g", "e">>), Str(<<"h", "o", "s", "t">>), Str(<<"p", "a", "t", "h">>),
                 Str(<<"t", "a", "g", "s">>), Str(<<"t", "y", "p", "e">>), Str(<<"l", "e", "v", "e", "l">>), Str(<<"l", "o", "g", "g", "e", "r", "_", "n", "a", "m", "e">>)>>,
               <<ts, Str(<<"1">>), getMessage(record), self.host, Attr(record, <<"p", "a", "t", "h", "n", "a", "m", "e">>),
                 self.tags, self.message_type, Attr(record, <<"l", "e", "v", "e", "l", "n", "a", "m", "e">>), Attr(record, <<"n", "a", "m", "e">>)>>),
     format_timestamp(Attr(record, <<"c", "r", "e", "a", "t", "e", "d">>)))

\* the region extra and debug fields are merged into
Region(version, message) == IF version = 0 THEN DictGet(message, Str(<<"@", "f", "i", "e", "l", "d", "s">>)) ELSE message

\* a merge in which version 1 keeps a schema field an extra field collides with
update_message_keep(version, message, fields) ==
  IF version = 0
  THEN Eval2(LAMBDA m, f : DictSet(m, Str(<<"@", "f", "i", "e", "l", "d", "s">>), f),
             message, DictUpdate(DictGet(message, Str(<<"@", "f", "i", "e", "l", "d", "s">>)), fields))
  ELSE DictUpdate(fields, message)

\* message['@fields'].update(fields) in version 0, message.update(fields) in version 1
update_message(version, message, fields) ==
  IF version = 0
  THEN Eval2(LAMBDA m, f : DictSet(m, Str(<<"@", "f", "i", "e", "l", "d", "s">>), f),
             message, DictUpdate(DictGet(message, Str(<<"@", "f", "i", "e", "l", "d", "s">>)), fields))
  ELSE DictUpdate(message, fields)

Idle == [pc |-> "idle", version |-> 0, record |-> Unbound, message |-> Unbound,
         extra |-> Unbound, debug |-> Unbound, result |-> Unbound]

\* a failed statement ends the call with the error
Fail(c, err) == [c EXCEPT !.pc = "done", !.result = err]

\* format(record) is entered and the message dict is created
Format(p, version, record) ==
  /\ calls[p].pc = "idle"
  /\ calls' = [calls EXCEPT ![p] =
       Eval2(LAMBDA c, message : IF IsRaised(message) THEN Fail(c, message)
                                 ELSE [c EXCEPT !.pc = "extra", !.message = message],
             [Idle EXCEPT !.version = version, !.record = record],
             IF version = 0 THEN message_v0(formatter, record) ELSE message_v1(formatter, record))]
  /\ UNCHANGED <<formatter, tz, hostname, arg, ret>>

\* "Add extra fields"
AddExtraFields(p) ==
  /\ calls[p].pc = "extra"
  /\ calls' = [calls EXCEPT ![p] =
       Eval2(LAMBDA c, fields : IF IsRaised(fields) THEN Fail(c, fields)
                                ELSE [c EXCEPT !.pc = "debug", !.extra = fields,
                                               !.message = update_message(c.version, c.message, fields)],
             calls[p], get_extra_fields(calls[p].record))]
  /\ UNCHANGED <<formatter, tz, hostname, arg, ret>>

\* "If exception, add debug info"
AddDebugInfo(p) ==
  /\ calls[p].pc = "debug"
  /\ calls' = [calls EXCEPT ![p] =
       IF ~Truthy(Attr(calls[p].record, <<"e", "x", "c", "_", "i", "n", "f", "o">>)) THEN [calls[p] EXCEPT !.pc = "serialize"]
       ELSE Eval2(LAMBDA c, fields : IF IsRaised(fields) THEN Fail(c, fields)
                                     ELSE [c EXCEPT !.pc = "serialize", !.debug = fields,
                                                    !.message = update_message(c.version, c.message, fields)],
                  calls[p], get_debug_fields(calls[p].record))]
  /\ UNCHANGED <<formatter, tz, hostname, arg, ret>>

\* return self.serialize(message)
Serialize(p) ==
  /\ calls[p].pc = "serialize"
  /\ calls' = [calls EXCEPT ![p] =
       Eval(LAMBDA c : [c EXCEPT !.pc = "done", !.result = serialize(c.message)], calls[p])]
  /\ UNCHANGED <<formatter, tz, hostname, arg, ret>>

\* the caller takes the result; the thread is free for its next call
Return(p) ==
  /\ calls[p].pc = "done"
  /\ calls' = [calls EXCEPT ![p] = Idle]
  /\ UNCHANGED <<formatter, tz, hostname, arg, ret>>

\* format(record) run from its first statement to its return
format(version, self, record) ==
  Eval2(LAMBDA message, extra :
          IF IsRaised(message) THEN message
          ELSE IF IsRaised(extra) THEN extra
          ELSE Eval(LAMBDA m1 :
                      IF ~Truthy(Attr(record, <<"e", "x", "c", "_", "i", "n", "f", "o">>)) THEN serialize(m1)
                      ELSE Eval(LAMBDA debug :
                                  IF IsRaised(debug) THEN debug
                                  ELSE Eval(LAMBDA m2 : serialize(m2), update_message(version, m1, debug)),
                                get_debug_fields(record)),
                    update_message(version, message, extra)),
        IF version = 0 THEN message_v0(self, record) ELSE message_v1(self, record),
        get_extra_fields(record))

-----------------------------------------------------------------------------
(* The inputs the model draws from *)

\* nesting depth of the containers put around a value
MaxDepth == 1
\* threads that share the formatter
MaxThreads == 2
\* days on either side of each sample date
MaxDayOffset == 1

Threads == 1..MaxThreads

SampleUuid == Uuid(<<1, 2, 3, 14, 4, 5, 6, 7, 14, 8, 9, 11, 1, 2, 13, 3, 10, 4, 5, 6, 4, 2, 6, 6, 1, 4, 1, 7, 4, 0, 0, 0>>)

Leaves ==
  {None, Bool(TRUE), PyInt(42), Str(<<"h", "i">>), Float("finite", <<25, -1>>),
   Decimal("finite", <<0, 150, -2>>), Decimal("NaN", <<0, 0, 0>>), Decimal("sNaN", <<0, 0, 0>>),
   Decimal("Infinity", <<1, 0, 0>>), SampleUuid,
   DateTime(2020, 1, 1, 12, 30, 45, 123456), DateTime(1999, 12, 31, 23, 59, 59, 999999),
   DateTime(9999, 12, 31, 23, 59, 59, 0), Date(2020, 2, 29),
   Object("plain", <<"<", "O", "b", "j", ">">>), Object("raises", <<>>), Tuple(<<PyInt(1), Str(<<"a">>)>>)}

RECURSIVE ValuesOfDepth(_)
ValuesOfDepth(d) ==
  IF d = 0 THEN Leaves
  ELSE LET S == ValuesOfDepth(d - 1)
       IN S \cup {List(<<v>>) : v \in S} \cup {List(<<PyInt(7), v>>) : v \in S}
            \cup {Tuple(<<v>>) : v \in S}
            \cup {Dict(<<Str(<<"k">>)>>, <<v>>) : v \in S}
            \cup {Dict(<<Tuple(<<PyInt(1), PyInt(2)>>)>>, <<v>>) : v \in S}

Values == ValuesOfDepth(MaxDepth)

SampleDays == {0, days_from_civil(2020, 1, 1), days_from_civil(9999, 12, 31)}
SampleMicros == {0, 1, 999, 1000, 1499, 1500, 123456, 500000, 999499, 999500, 999999}
Timestamps ==
  {Epoch(d + k, sod, us) : d \in SampleDays, k \in (0 - MaxDayOffset)..MaxDayOffset,
                           sod \in {0, 3661, 86399}, us \in SampleMicros}

\* sys.exc_info() of a caught exception
ExcInfo == Tuple(<<Object("plain", <<"<", "c", "l", "a", "s", "s", " ", "'", "V", "a", "l", "u", "e", "E", "r", "r", "o", "r", "'", ">">>), Object("plain", <<"V", "a", "l", "u", "e", "E", "r", "r", "o", "r", "(", "'", "x", "'", ")">>),
                   Object("plain", <<"T", "r", "a", "c", "e", "b", "a", "c", "k", ":", " ", "V", "a", "l", "u", "e", "E", "r", "r", "o", "r", ":", " ", "x">>)>>)

\* an attribute the record does not have
Absent == Mk("absent", "", <<>>, <<>>, <<>>, <<>>)

Opt(name, v) == IF v = Absent THEN Dict(<<>>, <<>>) ELSE Dict(<<Str(name)>>, <<v>>)

\* a LogRecord's __dict__: the attributes LogRecord.__init__ sets that the
\* formatter reads or that reach its output, then the caller's own
LogRecord(created, exc_info, funcName, processName, extras) ==
  DictUpdate(DictUpdate(DictUpdate(DictUpdate(DictUpdate(
    Dict(<<Str(<<"n", "a", "m", "e">>), Str(<<"m", "s", "g">>), Str(<<"a", "r", "g", "s">>), Str(<<"l", "e", "v", "e", "l", "n", "a", "m", "e">>), Str(<<"p", "a", "t", "h", "n", "a", "m", "e">>),
           Str(<<"e", "x", "c", "_", "i", "n", "f", "o">>), Str(<<"s", "t", "a", "c", "k", "_", "i", "n", "f", "o">>), Str(<<"l", "i", "n", "e", "n", "o">>)>>,
         <<Str(<<"a", "p", "p", ".", "d", "b">>), Str(<<"h", "e", "l", "l", "o">>), Tuple(<<>>), Str(<<"I", "N", "F", "O">>), Str(<<"/", "s", "r", "v", "/", "a", "p", "p", ".", "p", "y">>),
           exc_info, None, PyInt(17)>>),
    Opt(<<"f", "u", "n", "c", "N", "a", "m", "e">>, funcName)),
    Dict(<<Str(<<"c", "r", "e", "a", "t", "e", "d">>), Str(<<"t", "h", "r", "e", "a", "d", "N", "a", "m", "e">>)>>, <<created, Str(<<"M", "a", "i", "n", "T", "h", "r", "e", "a", "d">>)>>)),
    Opt(<<"p", "r", "o", "c", "e", "s", "s", "N", "a", "m", "e">>, processName)),
    Dict(<<Str(<<"p", "r", "o", "c", "e", "s", "s">>)>>, <<PyInt(4242)>>)),
    extras)

Created == Epoch(days_from_civil(2020, 1, 1), 3661, 999999)

\* what a record has for funcName and processName
NameVariants ==
  {<<Str(<<"r", "u", "n">>), Str(<<"M", "a", "i", "n">>)>>, <<None, Str(<<"M", "a", "i", "n">>)>>, <<Str(<<>>), Str(<<"M", "a", "i", "n">>)>>,
   <<Absent, Str(<<"M", "a", "i", "n">>)>>, <<Str(<<"r", "u", "n">>), None>>, <<Str(<<"r", "u", "n">>), Absent>>}

NoExtras == Dict(<<>>, <<>>)
UserId == Dict(<<Str(<<"u", "s", "e", "r", "_", "i", "d">>)>>, <<PyInt(42)>>)
\* attributes under reserved names
ReservedNamed ==
  Dict(<<Str(<<"i", "d">>), Str(<<"e", "x", "t", "r", "a">>), Str(<<"m", "e", "s", "s", "a", "g", "e">>), Str(<<"a", "s", "c", "t", "i", "m", "e">>)>>,
       <<Str(<<"s", "e", "c", "r", "e", "t">>), Dict(<<Str(<<"k">>)>>, <<PyInt(1)>>), Str(<<"m">>), Str(<<"n", "o", "w">>)>>)
\* attributes under the names of schema fields
SchemaNamed ==
  Dict(<<Str(<<"h", "o", "s", "t">>), Str(<<"t", "a", "g", "s">>), Str(<<"l", "e", "v", "e", "l">>), Str(<<"l", "o", "g", "g", "e", "r">>), Str(<<"@", "t", "i", "m", "e", "s", "t", "a", "m", "p">>), Str(<<"@", "v", "e", "r", "s", "i", "o", "n">>)>>,
       <<Str(<<"e", "v", "i", "l">>), Str(<<"t">>), PyInt(3), Str(<<"m", "i", "n", "e">>), Date(2020, 2, 29), PyInt(2)>>)
\* attributes under the names of debug fields
DebugNamed ==
  Dict(<<Str(<<"s", "t", "a", "c", "k", "_", "t", "r", "a", "c", "e">>), Str(<<"t", "h", "r", "e", "a", "d", "_", "n", "a", "m", "e">>), Str(<<"u", "s", "e", "r", "_", "i", "d">>)>>, <<Str(<<"m", "i", "n", "e">>), Str(<<"t", "n">>), PyInt(42)>>)
Payload ==
  Dict(<<Str(<<"d", "a", "t", "a">>), Str(<<"r", "i", "d">>)>>, <<Dict(<<Str(<<"a">>)>>, <<Decimal("finite", <<0, 150, -2>>)>>), SampleUuid>>)

ExtrasChoices == {NoExtras, UserId, ReservedNamed, SchemaNamed, DebugNamed, Payload}

Records ==
  {LogRecord(Created, None, Str(<<"r", "u", "n">>), Str(<<"M", "a", "i", "n">>), Dict(<<Str(<<"x">>)>>, <<v>>)) : v \in Values}
  \cup {LogRecord(Created, e, nv[1], nv[2], x) : e \in {None, ExcInfo}, nv \in NameVariants, x \in ExtrasChoices}
  \cup {LogRecord(Epoch(days_from_civil(9999, 12, 31) + 1, 0, 0), None, Str(<<"r", "u", "n">>), Str(<<"M", "a", "i", "n">>), NoExtras)}

\* the records the threads of the concurrent specification format
SharedRecords ==
  {LogRecord(Created, None, Str(<<"r", "u", "n">>), Str(<<"M", "a", "i", "n">>), UserId),
   LogRecord(Created, ExcInfo, None, Str(<<"M", "a", "i", "n">>), DictUpdate(SchemaNamed, DebugNamed)),
   LogRecord(Created, None, Str(<<"r", "u", "n">>), Str(<<"M", "a", "i", "n">>), Dict(<<Str(<<"x">>)>>, <<Decimal("sNaN", <<0, 0, 0>>)>>))}

HostNames == {<<"m", "y", "h", "o", "s", "t">>, <<"w", "e", "b", "1">>}

-----------------------------------------------------------------------------
(* Specifications *)

\* a formatter is constructed; one caller formats records with it
Init ==
  /\ tz \in {0, -18000}
  /\ hostname = <<"m", "y", "h", "o", "s", "t">>
  /\ \E message_type \in {Str(<<"L", "o", "g", "s", "t", "a", "s", "h">>), Str(<<"a", "p", "p">>)},
        tags \in {None, List(<<Str(<<"a">>), Str(<<"b">>)>>)}, fqdn \in BOOLEAN :
       formatter = LogstashFormatterBase_init(message_type, tags, fqdn, hostname)
  /\ calls = [p \in Threads |-> Idle]
  /\ arg = Unbound
  /\ ret = Unbound

Next ==
  \/ \E version \in {0, 1}, record \in Records : Format(1, version, record)
  \/ AddExtraFields(1)
  \/ AddDebugInfo(1)
  \/ Serialize(1)
  \/ Return(1)

Spec == Init /\ [][Next]_vars

\* the machine is given another name while the process runs
HostRenamed ==
  /\ \E name \in HostNames : name # hostname /\ hostname' = name
  /\ UNCHANGED <<formatter, tz, calls, arg, ret>>

InitThreads ==
  /\ tz = 0
  /\ hostname = <<"m", "y", "h", "o", "s", "t">>
  /\ \E fqdn \in BOOLEAN :
       formatter = LogstashFormatterBase_init(Str(<<"L", "o", "g", "s", "t", "a", "s", "h">>), List(<<Str(<<"a">>), Str(<<"b">>)>>), fqdn, hostname)
  /\ calls = [p \in Threads |-> Idle]
  /\ arg = Unbound
  /\ ret = Unbound

NextThreads ==
  \/ \E p \in Threads :
       \/ \E version \in {0, 1}, record \in SharedRecords : Format(p, version, record)
       \/ AddExtraFields(p)
       \/ AddDebugInfo(p)
       \/ Serialize(p)
       \/ Return(p)
  \/ HostRenamed

SpecThreads == InitThreads /\ [][NextThreads]_vars

\* value_repr applied to one value
Normalize ==
  /\ ret = Unbound
  /\ ret' = value_repr(arg)
  /\ UNCHANGED <<formatter, tz, hostname, calls, arg>>

InitNorm ==
  /\ tz \in {0, -18000}
  /\ hostname = <<"m", "y", "h", "o", "s", "t">>
  /\ formatter = LogstashFormatterBase_init(Str(<<"L", "o", "g", "s", "t", "a", "s", "h">>), None, FALSE, hostname)
  /\ calls = [p \in Threads |-> Idle]
  /\ arg \in Values
  /\ ret = Unbound

SpecNorm == InitNorm /\ [][Normalize]_vars

\* format_timestamp applied to one epoch instant
Stamp ==
  /\ ret = Unbound
  /\ ret' = format_timestamp(arg)
  /\ UNCHANGED <<formatter, tz, hostname, calls, arg>>

InitTime ==
  /\ tz = 0
  /\ hostname = <<"m", "y", "h", "o", "s", "t">>
  /\ formatter = LogstashFormatterBase_init(Str(<<"L", "o", "g", "s", "t", "a", "s", "h">>), None, FALSE, hostname)
  /\ calls = [p \in Threads |-> Idle]
  /\ arg \in Timestamps
  /\ ret = Unbound

SpecTime == InitTime /\ [][Stamp]_vars

-----------------------------------------------------------------------------
(* Properties *)

Range(f) == {f[i] : i \in 1..Len(f)}
Keys(d) == Range(d.keys)

\* the reserved attribute names
ReservedNames ==
  {<<"a", "r", "g", "s">>, <<"a", "s", "c", "t", "i", "m", "e">>, <<"c", "r", "e", "a", "t", "e", "d">>, <<"e", "x", "c", "_", "i", "n", "f", "o">>, <<"e", "x", "c", "_", "t", "e", "x", "t">>, <<"f", "i", "l", "e", "n", "a", "m", "e">>, <<"f", "u", "n", "c", "N", "a", "m", "e">>,
   <<"i", "d">>, <<"l", "e", "v", "e", "l", "n", "a", "m", "e">>, <<"l", "e", "v", "e", "l", "n", "o">>, <<"l", "i", "n", "e", "n", "o">>, <<"m", "o", "d", "u", "l", "e">>, <<"m", "s", "e", "c", "s">>, <<"m", "e", "s", "s", "a", "g", "e">>, <<"m", "s", "g">>,
   <<"n", "a", "m", "e">>, <<"p", "a", "t", "h", "n", "a", "m", "e">>, <<"p", "r", "o", "c", "e", "s", "s">>, <<"p", "r", "o", "c", "e", "s", "s", "N", "a", "m", "e">>, <<"r", "e", "l", "a", "t", "i", "v", "e", "C", "r", "e", "a", "t", "e", "d">>, <<"t", "h", "r", "e", "a", "d">>,
   <<"t", "h", "r", "e", "a", "d", "N", "a", "m", "e">>, <<"e", "x", "t", "r", "a">>}

\* the record's attributes that are not reserved
ExtraNames(record) == {k \in Keys(record) : k.chars \notin ReservedNames}

\* C1: the mapping get_extra_fields returns has as keys exactly the record's
\* attribute names that are not reserved; no reserved name is a key of it
C1_ExtraKeys ==
  \A p \in Threads :
    calls[p].extra # Unbound =>
      /\ Keys(calls[p].extra) = ExtraNames(calls[p].record)
      /\ \A k \in Keys(calls[p].extra) : k.chars \notin ReservedNames

\* get_extra_fields has returned for a record that stores values under
\* reserved names and under others
C1_Witness ==
  \E p \in Threads :
    /\ calls[p].extra # Unbound
    /\ HasAttr(calls[p].record, <<"i", "d">>) /\ HasAttr(calls[p].record, <<"e", "x", "t", "r", "a">>)
    /\ Keys(calls[p].extra) = {Str(<<"s", "t", "a", "c", "k", "_", "i", "n", "f", "o">>)}

\* C2: value_repr returns a value for every input and never raises
C2_Total == ret # Unbound => ~IsRaised(ret)

RECURSIVE JsonSafe(_)
\* a str, number, boolean, null, a mapping with str keys or a sequence, of
\* JSON-safe values at every depth
JsonSafe(v) ==
  CASE v.t \in {"str", "int", "bool", "none"} -> TRUE
    [] v.t = "float" -> v.s # "epoch"
    [] v.t = "list" -> \A i \in 1..Len(v.kids) : JsonSafe(v.kids[i])
    [] v.t = "dict" -> \A i \in 1..Len(v.kids) : v.keys[i].t = "str" /\ JsonSafe(v.kids[i])
    [] OTHER -> FALSE

\* C3: the document handed to serialize is JSON-safe at every depth
C3_JsonSafe == \A p \in Threads : calls[p].pc = "serialize" => JsonSafe(calls[p].message)

\* the statement calling get_debug_fields has been executed
DebugCalled(c) ==
  /\ c.pc \in {"serialize", "done"}
  /\ c.extra # Unbound
  /\ Truthy(Attr(c.record, <<"e", "x", "c", "_", "i", "n", "f", "o">>))

DebugKeys == {Str(<<"s", "t", "a", "c", "k", "_", "t", "r", "a", "c", "e">>), Str(<<"l", "i", "n", "e", "n", "o">>), Str(<<"p", "r", "o", "c", "e", "s", "s">>), Str(<<"t", "h", "r", "e", "a", "d", "_", "n", "a", "m", "e">>)}

\* C4: for a record with exception context get_debug_fields returns, without
\* error, a mapping with exactly the keys stack_trace, lineno, process and
\* thread_name, the last three being the record's lineno, process and threadName
C4_DebugFields ==
  \A p \in Threads :
    DebugCalled(calls[p]) =>
      /\ calls[p].debug # Unbound
      /\ Keys(calls[p].debug) = DebugKeys
      /\ DictGet(calls[p].debug, Str(<<"l", "i", "n", "e", "n", "o">>)) = Attr(calls[p].record, <<"l", "i", "n", "e", "n", "o">>)
      /\ DictGet(calls[p].debug, Str(<<"p", "r", "o", "c", "e", "s", "s">>)) = Attr(calls[p].record, <<"p", "r", "o", "c", "e", "s", "s">>)
      /\ DictGet(calls[p].debug, Str(<<"t", "h", "r", "e", "a", "d", "_", "n", "a", "m", "e">>)) = Attr(calls[p].record, <<"t", "h", "r", "e", "a", "d", "N", "a", "m", "e">>)

\* the document of the call is assembled: extra and debug fields are merged
Assembled(c) ==
  /\ c.pc \in {"serialize", "done"}
  /\ c.extra # Unbound
  /\ Truthy(Attr(c.record, <<"e", "x", "c", "_", "i", "n", "f", "o">>)) => c.debug # Unbound

\* C5: for one record and one configuration, @fields[k] of the version 0
\* document equals the top-level k of the version 1 document, for every
\* attribute name k that is not reserved
C5_SchemasAgree ==
  \A p, q \in Threads :
    (/\ Assembled(calls[p]) /\ Assembled(calls[q])
     /\ calls[p].version = 0 /\ calls[q].version = 1
     /\ calls[p].record = calls[q].record) =>
      \A k \in ExtraNames(calls[p].record) :
        /\ DictHas(Region(0, calls[p].message), k) /\ DictHas(calls[q].message, k)
        /\ DictGet(Region(0, calls[p].message), k) = DictGet(calls[q].message, k)

\* both documents of one record are assembled, the record having attributes
\* named like schema fields and like debug fields, and exception context
C5_Witness ==
  \E p, q \in Threads :
    /\ Assembled(calls[p]) /\ Assembled(calls[q])
    /\ calls[p].version = 0 /\ calls[q].version = 1
    /\ calls[p].record = calls[q].record
    /\ Truthy(Attr(calls[p].record, <<"e", "x", "c", "_", "i", "n", "f", "o">>))
    /\ {Str(<<"h", "o", "s", "t">>), Str(<<"t", "a", "g", "s">>), Str(<<"s", "t", "a", "c", "k", "_", "t", "r", "a", "c", "e">>)} \subseteq ExtraNames(calls[p].record)

\* C6: under every interleaving no step of a format call writes to the
\* formatter or to the call's record, and every call returns what format
\* returns when run alone on its record
C6_Isolated ==
  [][/\ formatter' = formatter
     /\ \A p \in Threads :
          /\ (calls[p].pc # "idle" /\ calls'[p].pc # "idle") => calls'[p].record = calls[p].record
          /\ (calls[p].pc = "done" /\ calls'[p].pc = "done") => calls'[p].result = calls[p].result
          /\ (calls[p].pc # "done" /\ calls'[p].pc = "done") =>
               calls'[p].result = format(calls'[p].version, formatter, calls'[p].record)]_vars

\* one call has returned its bytes while another is under way, after the
\* machine was renamed
C6_Witness ==
  \E p, q \in Threads :
    /\ calls[p].pc = "done" /\ calls[p].result.t = "bytes"
    /\ calls[q].pc \in {"extra", "debug", "serialize"}
    /\ hostname # <<"m", "y", "h", "o", "s", "t">>

\* the instant is one that datetime can represent
InRange(timestamp) == civil_from_days(timestamp.n[1])[1] \in 1..9999

\* C7: format_timestamp returns a string ending in 'Z' whose fraction is
\* exactly three digits, the whole milliseconds floor(u / 1000) of the u
\* microseconds, and whose seconds field is that of the instant
C7_Millis ==
  (ret # Unbound /\ InRange(arg)) =>
    /\ ret.t = "str"
    /\ LET c == ret.chars
           ms == arg.n[3] \div 1000
           sec == arg.n[2] % 60
       IN /\ Len(c) = 24
          /\ c[24] = "Z"
          /\ c[20] = "."
          /\ \A i \in 1..19 : c[i] # "."
          /\ SubSeq(c, 21, 23) = <<DigitChars[(ms \div 100) + 1], DigitChars[((ms \div 10) % 10) + 1], DigitChars[(ms % 10) + 1]>>
          /\ SubSeq(c, 18, 19) = <<DigitChars[(sec \div 10) + 1], DigitChars[(sec % 10) + 1]>>

\* an instant with 999999 microseconds in second 59 is formatted as 59.999Z
C7_Witness ==
  /\ ret # Unbound /\ ret.t = "str"
  /\ arg.n[3] = 999999 /\ arg.n[2] = 86399
  /\ SubSeq(ret.chars, 18, 24) = <<"5", "9", ".", "9", "9", "9", "Z">>

\* C8: for an ordered sequence that is not a string (a list or a tuple)
\* whose elements normalize, value_repr returns a sequence of the same
\* length whose i-th element is the normalization of the i-th element
C8_Sequences ==
  (/\ ret # Unbound
   /\ arg.t \in {"list", "tuple"}
   /\ \A i \in 1..Len(arg.kids) : ~IsRaised(value_repr(arg.kids[i]))) =>
    /\ ret.t = "list"
    /\ Len(ret.kids) = Len(arg.kids)
    /\ \A i \in 1..Len(arg.kids) : ret.kids[i] = value_repr(arg.kids[i])

\* C9: for a date/time value value_repr returns format_timestamp of the
\* value's epoch instant, microseconds included
C9_DateTime ==
  (ret # Unbound /\ arg.t = "datetime") =>
    ret = format_timestamp(Epoch(mktime(timetuple(arg)).n[1], mktime(timetuple(arg)).n[2], arg.n[7]))

\* the value the claim gives to debug key k
DebugValue(record, k) ==
  CASE k = Str(<<"s", "t", "a", "c", "k", "_", "t", "r", "a", "c", "e">>) -> format_exception(Attr(record, <<"e", "x", "c", "_", "i", "n", "f", "o">>))
    [] k = Str(<<"l", "i", "n", "e", "n", "o">>) -> Attr(record, <<"l", "i", "n", "e", "n", "o">>)
    [] k = Str(<<"p", "r", "o", "c", "e", "s", "s">>) -> Attr(record, <<"p", "r", "o", "c", "e", "s", "s">>)
    [] k = Str(<<"t", "h", "r", "e", "a", "d", "_", "n", "a", "m", "e">>) -> Attr(record, <<"t", "h", "r", "e", "a", "d", "N", "a", "m", "e">>)

\* the schema fields of the merged region, before anything is merged into it
SchemaRegion(c) ==
  Region(c.version, IF c.version = 0 THEN message_v0(formatter, c.record) ELSE message_v1(formatter, c.record))

\* C10: the merged region has the schema keys, the extras keys and, with
\* exception context only, the four debug keys; a key's value is the debug
\* field's, else the normalized extra's, else the schema field's
C10_Precedence ==
  \A p \in Threads :
    Assembled(calls[p]) =>
      LET c == calls[p]
          exc == Truthy(Attr(c.record, <<"e", "x", "c", "_", "i", "n", "f", "o">>))
          region == Region(c.version, c.message)
      IN /\ Keys(region) = Keys(SchemaRegion(c)) \cup ExtraNames(c.record) \cup (IF exc THEN DebugKeys ELSE {})
         /\ \A k \in Keys(region) :
              DictGet(region, k) =
                IF exc /\ k \in DebugKeys THEN DebugValue(c.record, k)
                ELSE IF k \in ExtraNames(c.record) THEN value_repr(DictGet(c.record, k))
                ELSE DictGet(SchemaRegion(c), k)
====
